---- MODULE Spec2Model ----
(***************************************************************************)
(* Model of src/autoscaler/autoscaler.py: the Autoscaler control loop      *)
(* (run), its hysteresis decision (autoscale) and its scaling executor     *)
(* (scale_app).                                                            *)
(*                                                                         *)
(* Numbers.  Metric values and thresholds are Python floats; the model     *)
(* uses integers for them (only their order and the equality with -1.0     *)
(* matter).  autoscale_multiplier is a float; the model keeps it as an     *)
(* exact fraction <<num, den>> and restricts it to values that binary      *)
(* floating point represents exactly (1, 1.5, 2), for which math.ceil and  *)
(* math.floor of the float product/quotient equal the exact ones on the    *)
(* small instance counts used here.  min_instances / max_instances are     *)
(* float(int): the same number, so the model keeps the integer.            *)
(*                                                                         *)
(* The remote calls (MarathonClient.dcos_rest) and the metric modes        *)
(* (scalecpu, scalesqs) are external: their answers are inputs chosen      *)
(* with \E from small sets.  Every remote call is assumed to return.       *)
(* Init is the object as __init__ leaves it, with run() about to be called.*)
(***************************************************************************)
EXTENDS Integers, FiniteSets, Sequences, TLC

(***************************************************************************)
(* Bounds of the model                                                     *)
(***************************************************************************)
\* largest configured scale_up_factor / cool_down_factor
MaxFactor == 3
\* largest instance count the orchestrator reports
MaxCount == 5

(***************************************************************************)
(* Program constants and input domains                                     *)
(***************************************************************************)
\* the sentinel of line 301 (metric == -1.0)
Sentinel == -1
\* value of a local of run()/scale_app() that the current iteration has not bound
Unassigned == -2

\* keys of the SCALING_MODES dictionary
SCALING_MODES == {"sqs", "cpu"}
\* configured values of --trigger_mode: one key of SCALING_MODES, one unknown
TriggerModes == {"cpu", "mem"}

\* the configured application id and the listings the orchestrator may return
marathon_app == "/app"
AppListings == { {}, {"/other"}, {"/app", "/other"} }
\* the 'tasks' list of the application descriptor (only its emptiness and ids matter)
TaskLists == { <<>>, <<"task1">> }

\* (get_min(), get_max()) pairs a metric mode may return, with min <= max
Thresholds == { <<20, 80>>, <<50, 50>> }
\* get_metric() results, the sentinel included
MetricValues == { Sentinel, 10, 20, 50, 80, 95 }

\* configured (min_instances, max_instances) pairs; <<3, 2>> is a misconfiguration
InstanceLimits == { <<2, 10>>, <<1, 3>>, <<3, 4>>, <<3, 2>> }
\* configured autoscale_multiplier as <<numerator, denominator>>: 1, 1.5, 2
Multipliers == { <<1, 1>>, <<3, 2>>, <<2, 1>> }

(***************************************************************************)
(* State                                                                   *)
(***************************************************************************)
VARIABLES
  \* configuration read in __init__, never written afterwards
  scale_up_factor, cool_down_factor, min_instances, max_instances,
  autoscale_multiplier, trigger_mode,
  \* fields of the Autoscaler object
  scale_up, cool_down, app_instances,
  \* position in run() and its locals
  pc, exit_code, marathon_apps, app_task_dict, min, max, metric,
  \* observation of the current iteration: which branch autoscale took,
  \* scale_app's local target_instances, the 'instances' payload of the PUT
  decision, target_instances, put,
  \* history: counters at the start of the iteration, and the length of the
  \* current run of consecutive evaluated iterations above max / below min
  \* that began with the corresponding counter at 0
  scale_up0, cool_down0, upRun, downRun,
  \* history of the loop: whether this is the first iteration, the number of
  \* timer() calls since the iteration began, and the 'instances' field of the
  \* application descriptor fetched in this iteration
  first, sleeps, reported,
  \* history of the actions, recorded by the specification SepSpec only: the
  \* number of ScaleUp/ScaleDown decisions so far (counted up to 2), the
  \* evaluated iterations since the last of them that decided NoAction above
  \* max / below min (counted up to the corresponding factor), and the
  \* decision of the previous evaluated iteration
  actions, waitedUp, waitedDown, prev,
  \* the instance count the orchestrator holds, followed by the specification
  \* LoadSpec only
  deployed

cfgvars == <<scale_up_factor, cool_down_factor, min_instances, max_instances,
             autoscale_multiplier, trigger_mode>>
objvars == <<scale_up, cool_down, app_instances>>
runvars == <<pc, exit_code, marathon_apps, app_task_dict, min, max, metric>>
obsvars == <<decision, target_instances, put>>
histvars == <<scale_up0, cool_down0, upRun, downRun>>
cyclevars == <<first, sleeps, reported>>
sepvars == <<actions, waitedUp, waitedDown, prev>>
vars == <<cfgvars, objvars, runvars, obsvars, histvars, cyclevars, sepvars, deployed>>

(***************************************************************************)
(* Pure helpers                                                            *)
(***************************************************************************)
\* Ceil that truncates, as int(n * m) would
Ceil_Truncates(n, m) == (n * m[1]) \div m[2]

\* math.ceil(n * m) for the fraction m = <<num, den>>, n >= 0
Ceil(n, m) == (n * m[1] + m[2] - 1) \div m[2]

\* math.floor(n / m) for the fraction m = <<num, den>>, n >= 0
Floor(n, m) == (n * m[2]) \div m[1]

\* Branch with the scale-up test written > instead of >=
Branch_UpStrict(lo, hi, value, up, down) ==
  IF lo <= value /\ value <= hi THEN "within"
  ELSE IF value > hi /\ up > scale_up_factor THEN "ScaleUp"
  ELSE IF value < lo /\ down >= cool_down_factor THEN "ScaleDown"
  ELSE IF value > hi THEN "above"
  ELSE IF value < lo THEN "below"
  ELSE "else"

\* Branch with the cool-down test written > instead of >=
Branch_DownStrict(lo, hi, value, up, down) ==
  IF lo <= value /\ value <= hi THEN "within"
  ELSE IF value > hi /\ up >= scale_up_factor THEN "ScaleUp"
  ELSE IF value < lo /\ down > cool_down_factor THEN "ScaleDown"
  ELSE IF value > hi THEN "above"
  ELSE IF value < lo THEN "below"
  ELSE "else"

\* Branch with the healthy region exclusive at its lower end
Branch_ExclusiveMin(lo, hi, value, up, down) ==
  IF lo < value /\ value <= hi THEN "within"
  ELSE IF value > hi /\ up >= scale_up_factor THEN "ScaleUp"
  ELSE IF value < lo /\ down >= cool_down_factor THEN "ScaleDown"
  ELSE IF value > hi THEN "above"
  ELSE IF value < lo THEN "below"
  ELSE "else"

\* Branch with the scale-up test comparing against cool_down_factor
Branch_WrongFactor(lo, hi, value, up, down) ==
  IF lo <= value /\ value <= hi THEN "within"
  ELSE IF value > hi /\ up >= cool_down_factor THEN "ScaleUp"
  ELSE IF value < lo /\ down >= cool_down_factor THEN "ScaleDown"
  ELSE IF value > hi THEN "above"
  ELSE IF value < lo THEN "below"
  ELSE "else"

\* the if/elif chain of autoscale(): which branch is taken
Branch(lo, hi, value, up, down) ==
  IF lo <= value /\ value <= hi THEN "within"
  ELSE IF value > hi /\ up >= scale_up_factor THEN "ScaleUp"
  ELSE IF value < lo /\ down >= cool_down_factor THEN "ScaleDown"
  ELSE IF value > hi THEN "above"
  ELSE IF value < lo THEN "below"
  ELSE "else"

\* NextScaleUp with "self.scale_up = 1" in place of "self.scale_up += 1"
NextScaleUp_Assign(branch, up) ==
  CASE branch = "within" -> 0
    [] branch = "ScaleUp" -> 0
    [] branch = "above" -> 1
    [] branch = "below" -> 0
    [] OTHER -> up

\* NextScaleUp without the reset of line 150
NextScaleUp_KeepOnFire(branch, up) ==
  CASE branch = "within" -> 0
    [] branch = "above" -> up + 1
    [] branch = "below" -> 0
    [] OTHER -> up

\* self.scale_up after the branch
NextScaleUp(branch, up) ==
  CASE branch = "within" -> 0
    [] branch = "ScaleUp" -> 0
    [] branch = "above" -> up + 1
    [] branch = "below" -> 0
    [] OTHER -> up

\* NextCoolDown without the reset of line 157
NextCoolDown_NoReset(branch, down) ==
  CASE branch = "within" -> 0
    [] branch = "ScaleDown" -> 0
    [] branch = "below" -> down + 1
    [] OTHER -> down

\* self.cool_down after the branch
NextCoolDown(branch, down) ==
  CASE branch = "within" -> 0
    [] branch = "ScaleDown" -> 0
    [] branch = "above" -> 0
    [] branch = "below" -> down + 1
    [] OTHER -> down

\* TargetInstances without the clamp of lines 177-179
TargetInstances_NoMaxClamp(is_up, n) ==
  IF is_up
    THEN Ceil(n, autoscale_multiplier)
    ELSE IF Floor(n, autoscale_multiplier) < min_instances
           THEN min_instances ELSE Floor(n, autoscale_multiplier)

\* TargetInstances rounding the scale-down quotient up instead of down
TargetInstances_DownCeil(is_up, n) ==
  IF is_up
    THEN IF Ceil(n, autoscale_multiplier) > max_instances
           THEN max_instances ELSE Ceil(n, autoscale_multiplier)
    ELSE IF Ceil(n, <<autoscale_multiplier[2], autoscale_multiplier[1]>>) < min_instances
           THEN min_instances
           ELSE Ceil(n, <<autoscale_multiplier[2], autoscale_multiplier[1]>>)

\* scale_app's target_instances for n = self.app_instances
TargetInstances(is_up, n) ==
  IF is_up
    THEN IF Ceil(n, autoscale_multiplier) > max_instances
           THEN max_instances ELSE Ceil(n, autoscale_multiplier)
    ELSE IF Floor(n, autoscale_multiplier) < min_instances
           THEN min_instances ELSE Floor(n, autoscale_multiplier)

\* scale_app: the payload of the PUT, Unassigned when no PUT is issued
PutPayload(n, target) == IF n # target THEN target ELSE Unassigned

\* MetricUnavailable when the test of line 301 is left out
MetricUnavailable_NoTest(value) == FALSE

\* the test of line 301
MetricUnavailable(value) == value = Sentinel

\* the decision the branch stands for
DecisionOf(branch) ==
  IF branch \in {"ScaleUp", "ScaleDown"} THEN branch ELSE "NoAction"

(***************************************************************************)
(* Initial state: the object after __init__                                *)
(***************************************************************************)
Init ==
  /\ scale_up_factor \in 0..MaxFactor
  /\ cool_down_factor \in 0..MaxFactor
  /\ \E lim \in InstanceLimits : min_instances = lim[1] /\ max_instances = lim[2]
  /\ autoscale_multiplier \in Multipliers
  /\ trigger_mode \in TriggerModes
  /\ scale_up = 0
  /\ cool_down = 0
  /\ app_instances = 0
  /\ pc = "run"
  /\ exit_code = 0
  /\ marathon_apps = {}
  /\ app_task_dict = {}
  /\ min = Unassigned
  /\ max = Unassigned
  /\ metric = Unassigned
  /\ decision = "None"
  /\ target_instances = Unassigned
  /\ put = Unassigned
  /\ scale_up0 = 0
  /\ cool_down0 = 0
  /\ upRun = 0
  /\ downRun = 0
  /\ first = TRUE
  /\ sleeps = 0
  /\ reported = Unassigned
  /\ actions = 0
  /\ waitedUp = 0
  /\ waitedDown = 0
  /\ prev = "None"
  /\ deployed = Unassigned

(***************************************************************************)
(* run(): one action per step of the loop                                  *)
(***************************************************************************)
\* lines 266-267: entry of run()
Run ==
  /\ pc = "run"
  /\ scale_up' = 0
  /\ cool_down' = 0
  /\ pc' = "get_all_apps"
  /\ UNCHANGED <<cfgvars, app_instances, exit_code, marathon_apps, app_task_dict,
                 min, max, metric, obsvars, histvars, cyclevars,
                 sepvars, deployed>>

\* GetAllApps that exits on an empty listing in the first iteration only
GetAllApps_FatalOnlyFirst ==
  /\ pc = "get_all_apps"
  /\ \E apps \in AppListings :
       IF apps = {} /\ first
         THEN /\ pc' = "exit"
              /\ exit_code' = 1
              /\ UNCHANGED marathon_apps
         ELSE /\ marathon_apps' = apps
              /\ pc' = "check_existence"
              /\ UNCHANGED exit_code
  /\ sleeps' = 0
  /\ UNCHANGED <<cfgvars, objvars, app_task_dict, min, max, metric, obsvars, histvars,
                 first, reported,
                 sepvars, deployed>>

\* line 272 with get_all_apps (118-139): an empty listing exits with code 1
GetAllApps ==
  /\ pc = "get_all_apps"
  /\ \E apps \in AppListings :
       IF apps = {}
         THEN /\ pc' = "exit"
              /\ exit_code' = 1
              /\ UNCHANGED marathon_apps
         ELSE /\ marathon_apps' = apps
              /\ pc' = "check_existence"
              /\ UNCHANGED exit_code
  /\ sleeps' = 0
  /\ UNCHANGED <<cfgvars, objvars, app_task_dict, min, max, metric, obsvars, histvars,
                 first, reported,
                 sepvars, deployed>>

\* CheckExistence without the timer()/continue of lines 278-279
CheckExistence_NoContinue ==
  /\ pc = "check_existence"
  /\ pc' = "get_app_details"
  /\ UNCHANGED <<cfgvars, objvars, exit_code, marathon_apps, app_task_dict,
                 min, max, metric, obsvars, histvars, cyclevars,
                 sepvars, deployed>>

\* lines 276-279
CheckExistence ==
  /\ pc = "check_existence"
  /\ pc' = IF marathon_app \notin marathon_apps THEN "timer" ELSE "get_app_details"
  /\ UNCHANGED <<cfgvars, objvars, exit_code, marathon_apps, app_task_dict,
                 min, max, metric, obsvars, histvars, cyclevars,
                 sepvars, deployed>>

\* get_app_details (86-116) for one answer of the orchestrator
FetchDetails(instances, tasks) ==
  /\ reported' = instances
  /\ IF tasks # <<>>
       THEN /\ app_instances' = instances
            /\ app_task_dict' = { tasks[i] : i \in 1..Len(tasks) }
       ELSE /\ app_task_dict' = {}
            /\ UNCHANGED app_instances
  /\ pc' = "verify_tasks"
  /\ UNCHANGED <<cfgvars, scale_up, cool_down, exit_code, marathon_apps,
                 min, max, metric, obsvars, histvars, first, sleeps,
                 sepvars, deployed>>

\* line 282 with get_app_details (86-116)
GetAppDetails ==
  /\ pc = "get_app_details"
  /\ \E instances \in 0..MaxCount, tasks \in TaskLists : FetchDetails(instances, tasks)

\* VerifyTasks without the timer()/continue of lines 286-287
VerifyTasks_NoContinue ==
  /\ pc = "verify_tasks"
  /\ pc' = "scalemode"
  /\ UNCHANGED <<cfgvars, objvars, exit_code, marathon_apps, app_task_dict,
                 min, max, metric, obsvars, histvars, cyclevars,
                 sepvars, deployed>>

\* lines 285-287
VerifyTasks ==
  /\ pc = "verify_tasks"
  /\ pc' = IF app_task_dict = {} THEN "timer" ELSE "scalemode"
  /\ UNCHANGED <<cfgvars, objvars, exit_code, marathon_apps, app_task_dict,
                 min, max, metric, obsvars, histvars, cyclevars,
                 sepvars, deployed>>

\* lines 291-294
SelectMode ==
  /\ pc = "scalemode"
  /\ IF trigger_mode \notin SCALING_MODES
       THEN /\ pc' = "exit"
            /\ exit_code' = 1
       ELSE /\ pc' = "get_metric"
            /\ UNCHANGED exit_code
  /\ UNCHANGED <<cfgvars, objvars, marathon_apps, app_task_dict,
                 min, max, metric, obsvars, histvars, cyclevars,
                 sepvars, deployed>>

\* lines 297-299
GetMetric ==
  /\ pc = "get_metric"
  /\ \E th \in Thresholds, value \in MetricValues :
       /\ min' = th[1]
       /\ max' = th[2]
       /\ metric' = value
  /\ pc' = "test_metric"
  /\ UNCHANGED <<cfgvars, objvars, exit_code, marathon_apps, app_task_dict,
                 obsvars, histvars, cyclevars,
                 sepvars, deployed>>

\* TestMetric with the continue of line 303 but without the timer() of line 302
TestMetric_NoSleep ==
  /\ pc = "test_metric"
  /\ pc' = IF MetricUnavailable(metric) THEN "get_all_apps" ELSE "autoscale"
  /\ UNCHANGED <<cfgvars, objvars, exit_code, marathon_apps, app_task_dict,
                 min, max, metric, obsvars, histvars, cyclevars,
                 sepvars, deployed>>

\* lines 301-303
TestMetric ==
  /\ pc = "test_metric"
  /\ pc' = IF MetricUnavailable(metric) THEN "timer" ELSE "autoscale"
  /\ UNCHANGED <<cfgvars, objvars, exit_code, marathon_apps, app_task_dict,
                 min, max, metric, obsvars, histvars, cyclevars,
                 sepvars, deployed>>

\* line 306: autoscale (141-168) together with the scale_app (170-196) it calls
AutoscaleStep ==
  /\ pc = "autoscale"
  /\ LET branch == Branch(min, max, metric, scale_up, cool_down)
         target == TargetInstances(branch = "ScaleUp", app_instances)
     IN  /\ decision' = DecisionOf(branch)
         /\ scale_up' = NextScaleUp(branch, scale_up)
         /\ cool_down' = NextCoolDown(branch, cool_down)
         /\ IF branch \in {"ScaleUp", "ScaleDown"}
              THEN /\ target_instances' = target
                   /\ put' = PutPayload(app_instances, target)
              ELSE UNCHANGED <<target_instances, put>>
         /\ upRun' = IF metric > max
                       THEN IF scale_up = 0 THEN 1
                            ELSE IF upRun > 0 THEN upRun + 1 ELSE 0
                       ELSE 0
         /\ downRun' = IF metric < min
                         THEN IF cool_down = 0 THEN 1
                              ELSE IF downRun > 0 THEN downRun + 1 ELSE 0
                         ELSE 0
  /\ pc' = "timer"
  /\ UNCHANGED <<cfgvars, app_instances, exit_code, marathon_apps, app_task_dict,
                 min, max, metric, scale_up0, cool_down0, cyclevars>>

\* the smaller of two numbers
Least(a, b) == IF a < b THEN a ELSE b

\* line 306, the orchestrator answering anything afterwards
Autoscale == AutoscaleStep /\ UNCHANGED <<sepvars, deployed>>

\* line 306, with the history of the actions recorded
AutoscaleTracked ==
  /\ AutoscaleStep
  /\ actions' = IF decision' \in {"ScaleUp", "ScaleDown"}
                  THEN Least(actions + 1, 2) ELSE actions
  /\ waitedUp' = IF decision' \in {"ScaleUp", "ScaleDown"} THEN 0
                  ELSE IF metric > max THEN Least(waitedUp + 1, scale_up_factor)
                  ELSE waitedUp
  /\ waitedDown' = IF decision' \in {"ScaleUp", "ScaleDown"} THEN 0
                    ELSE IF metric < min THEN Least(waitedDown + 1, cool_down_factor)
                    ELSE waitedDown
  /\ prev' = decision'
  /\ UNCHANGED deployed

\* timer (80-84) and the return to the loop head (279, 287, 303, 307).  The
\* locals of the finished iteration are dead: each is bound again before it is
\* read, so the model forgets them here, and starts a fresh observation.
Timer ==
  /\ pc = "timer"
  /\ pc' = "get_all_apps"
  /\ marathon_apps' = {}
  /\ app_task_dict' = {}
  /\ min' = Unassigned
  /\ max' = Unassigned
  /\ metric' = Unassigned
  /\ decision' = "None"
  /\ target_instances' = Unassigned
  /\ put' = Unassigned
  /\ scale_up0' = scale_up
  /\ cool_down0' = cool_down
  /\ first' = FALSE
  /\ sleeps' = sleeps + 1
  /\ reported' = Unassigned
  /\ UNCHANGED <<cfgvars, objvars, exit_code, upRun, downRun,
                 sepvars, deployed>>

Next ==
  \/ Run
  \/ GetAllApps
  \/ CheckExistence
  \/ GetAppDetails
  \/ VerifyTasks
  \/ SelectMode
  \/ GetMetric
  \/ TestMetric
  \/ Autoscale
  \/ Timer

Spec == Init /\ [][Next]_vars

\* the same loop with the history of the actions recorded
NextTracked ==
  \/ Run
  \/ GetAllApps
  \/ CheckExistence
  \/ GetAppDetails
  \/ VerifyTasks
  \/ SelectMode
  \/ GetMetric
  \/ TestMetric
  \/ AutoscaleTracked
  \/ Timer

\* Init with one pair of instance limits.  The limits are read by scale_app
\* only: they influence neither the branch autoscale takes nor the path of an
\* iteration, and one pair keeps the larger checks below small.
InitOneLimit == Init /\ min_instances = 2 /\ max_instances = 10

SepSpec == InitOneLimit /\ [][NextTracked]_vars

(***************************************************************************)
(* Sustained load: the application is always listed with task data, the    *)
(* metric is always available and above max, the multiplier is above 1,    *)
(* and the orchestrator holds the instance count, starting within          *)
(* 1..max_instances, and applies every PUT before the next descriptor      *)
(* fetch.                                                                  *)
(***************************************************************************)
InitLoad ==
  /\ scale_up_factor \in 0..MaxFactor
  /\ cool_down_factor \in 0..MaxFactor
  /\ \E lim \in InstanceLimits : min_instances = lim[1] /\ max_instances = lim[2]
  /\ autoscale_multiplier \in { m \in Multipliers : m[1] > m[2] }
  /\ trigger_mode \in TriggerModes \cap SCALING_MODES
  /\ deployed \in 1..Least(MaxCount, max_instances)
  /\ scale_up = 0
  /\ cool_down = 0
  /\ app_instances = 0
  /\ pc = "run"
  /\ exit_code = 0
  /\ marathon_apps = {}
  /\ app_task_dict = {}
  /\ min = Unassigned
  /\ max = Unassigned
  /\ metric = Unassigned
  /\ decision = "None"
  /\ target_instances = Unassigned
  /\ put = Unassigned
  /\ scale_up0 = 0
  /\ cool_down0 = 0
  /\ upRun = 0
  /\ downRun = 0
  /\ first = TRUE
  /\ sleeps = 0
  /\ reported = Unassigned
  /\ actions = 0
  /\ waitedUp = 0
  /\ waitedDown = 0
  /\ prev = "None"

\* line 272, the listing containing the application
GetAllAppsPresent == GetAllApps /\ marathon_app \in marathon_apps'

\* line 282, the descriptor carrying the orchestrator's count and task data
GetAppDetailsDeployed ==
  /\ pc = "get_app_details"
  /\ \E tasks \in TaskLists \ {<<>>} : FetchDetails(deployed, tasks)

\* lines 297-299, the metric available and above max
GetMetricAbove == GetMetric /\ metric' > max'

\* line 306, the orchestrator applying the PUT
AutoscaleApplied ==
  /\ AutoscaleStep
  /\ deployed' = IF put' # Unassigned THEN put' ELSE deployed
  /\ UNCHANGED sepvars

NextLoad ==
  \/ Run
  \/ GetAllAppsPresent
  \/ CheckExistence
  \/ GetAppDetailsDeployed
  \/ VerifyTasks
  \/ SelectMode
  \/ GetMetricAbove
  \/ TestMetric
  \/ AutoscaleApplied
  \/ Timer

LoadSpec == InitLoad /\ [][NextLoad]_vars /\ WF_vars(NextLoad)

\* the single thread of run() keeps taking its next step: every remote call
\* returns and every sleep ends
FairSpec == InitOneLimit /\ [][Next]_vars /\ WF_vars(Next)

(***************************************************************************)
(* Properties                                                              *)
(***************************************************************************)
\* the iteration has run the decision engine and is at its end-of-cycle sleep
Evaluated == pc = "timer" /\ decision # "None"

\* C1 (as stated): with scale_up_factor = F >= 1, the F-th consecutive
\* evaluated cycle above max of a run that began with scale_up = 0 decides
\* ScaleUp and resets scale_up to 0.
C1_FiresOnCycleF ==
  (Evaluated /\ scale_up_factor >= 1 /\ upRun = scale_up_factor)
    => (decision = "ScaleUp" /\ scale_up = 0)

\* C1 (amended): with scale_up_factor = F >= 1, in a run of consecutive
\* evaluated cycles above max that began with scale_up = 0, cycles 1..F decide
\* NoAction and leave scale_up = 1..F, and cycle F+1 decides ScaleUp and resets
\* scale_up to 0 in that step; with min=20, max=80, multiplier 1.5,
\* max_instances=10, F=3 and 4 instances the fourth cycle at value 95 scales
\* to 6.
C1_FiresOnCycleFPlusOne ==
  (Evaluated /\ scale_up_factor >= 1 /\ upRun >= 1) =>
    /\ upRun <= scale_up_factor + 1
    /\ upRun <= scale_up_factor =>
         (decision = "NoAction" /\ scale_up = upRun /\ put = Unassigned)
    /\ upRun = scale_up_factor + 1 => (decision = "ScaleUp" /\ scale_up = 0)
    /\ ( /\ upRun = 4 /\ scale_up_factor = 3 /\ min = 20 /\ max = 80 /\ metric = 95
         /\ autoscale_multiplier = <<3, 2>> /\ max_instances = 10
         /\ app_instances = 4 )
       => (target_instances = 6 /\ put = 6)

\* C1 witness: the fourth cycle of the scenario has fired ScaleUp with target 6
C1_Witness ==
  /\ Evaluated /\ upRun = 4 /\ scale_up_factor = 3 /\ min = 20 /\ max = 80
  /\ metric = 95 /\ autoscale_multiplier = <<3, 2>> /\ max_instances = 10
  /\ app_instances = 4 /\ decision = "ScaleUp" /\ put = 6 /\ scale_up = 0

\* C2: an evaluated cycle with min <= value <= max decides NoAction, issues no
\* scale call and leaves both counters at 0, whatever they were before.
C2_HealthyResets ==
  (pc = "timer" /\ metric # Unassigned /\ min <= metric /\ metric <= max) =>
    /\ decision = "NoAction"
    /\ put = Unassigned /\ target_instances = Unassigned
    /\ scale_up = 0 /\ cool_down = 0

\* C2 witness: a healthy reading at the inclusive lower bound after a cycle
\* that had left scale_up non-zero
C2_Witness ==
  /\ pc = "timer" /\ metric = min /\ min < max /\ scale_up0 > 0
  /\ decision = "NoAction" /\ scale_up = 0

\* C3: at most one of scale_up and cool_down is non-zero in every state.
C3_AtMostOneCounter == scale_up = 0 \/ cool_down = 0

\* C3 witness: a cycle above max right after cycles below min had counted
C3_Witness == pc = "timer" /\ cool_down0 > 0 /\ scale_up > 0 /\ cool_down = 0

\* C4: after N < scale_up_factor consecutive evaluated cycles above max that
\* began with scale_up = 0, every cycle decided NoAction and scale_up = N.
C4_CountsBelowFactor ==
  (Evaluated /\ upRun >= 1 /\ upRun < scale_up_factor) =>
    (decision = "NoAction" /\ scale_up = upRun)

\* C4 witness: the second of fewer than scale_up_factor cycles above max
C4_Witness ==
  Evaluated /\ upRun = 2 /\ scale_up_factor = 3 /\ scale_up = 2 /\ metric > max

\* C5 (as stated): with cool_down_factor = F >= 1, the F-th consecutive
\* evaluated cycle below min of a run that began with cool_down = 0 decides
\* ScaleDown and resets cool_down to 0.
C5_FiresOnCycleF ==
  (Evaluated /\ cool_down_factor >= 1 /\ downRun = cool_down_factor)
    => (decision = "ScaleDown" /\ cool_down = 0)

\* C5 (amended): with cool_down_factor = F >= 1 and thresholds min <= max, in
\* a run of consecutive evaluated cycles below min that began with
\* cool_down = 0, cycles 1..F decide NoAction and leave cool_down = 1..F, and
\* cycle F+1 decides ScaleDown and resets cool_down to 0 in that step.
C5_FiresOnCycleFPlusOne ==
  (Evaluated /\ cool_down_factor >= 1 /\ downRun >= 1) =>
    /\ downRun <= cool_down_factor + 1
    /\ downRun <= cool_down_factor =>
         (decision = "NoAction" /\ cool_down = downRun /\ put = Unassigned)
    /\ downRun = cool_down_factor + 1 => (decision = "ScaleDown" /\ cool_down = 0)

\* C5 witness: ScaleDown fired on the cycle after cool_down_factor waiting cycles
C5_Witness ==
  /\ Evaluated /\ cool_down_factor = 2 /\ downRun = 3 /\ metric < min
  /\ decision = "ScaleDown" /\ cool_down = 0 /\ cool_down0 = 2

\* C6 (as stated): right after a cycle that decided ScaleUp or ScaleDown both
\* counters are 0, for every configured factor, 0 included.
C6_BothZeroAfterAction ==
  (Evaluated /\ decision \in {"ScaleUp", "ScaleDown"}) =>
    (scale_up = 0 /\ cool_down = 0)

\* C7: on ScaleUp, when ceil(current * multiplier) > max_instances the target
\* is max_instances, no PUT is issued if current already equals max_instances
\* (with a multiplier >= 1 also when nothing is clamped), and a PUT is issued,
\* carrying the target, exactly when target # current.
C7_ScaleUpClamp ==
  (Evaluated /\ decision = "ScaleUp") =>
    LET clamped == app_instances * autoscale_multiplier[1]
                     > max_instances * autoscale_multiplier[2]
    IN  /\ clamped => target_instances = max_instances
        /\ (clamped /\ app_instances = max_instances) => put = Unassigned
        /\ ( /\ autoscale_multiplier[1] >= autoscale_multiplier[2]
             /\ app_instances = max_instances ) => put = Unassigned
        /\ (put # Unassigned) <=> (target_instances # app_instances)
        /\ put # Unassigned => put = target_instances

\* C7 witness: ScaleUp at the clamp boundary, no PUT
C7_Witness ==
  /\ Evaluated /\ decision = "ScaleUp" /\ app_instances = max_instances
  /\ app_instances * autoscale_multiplier[1] > max_instances * autoscale_multiplier[2]
  /\ target_instances = max_instances /\ put = Unassigned

\* C8: on ScaleDown the target is floor(current / multiplier), raised to
\* min_instances when below it, and the PUT carries it whenever it differs
\* from current; min_instances=2, current 3, multiplier 2 gives a PUT of 2.
C8_ScaleDownTarget ==
  (Evaluated /\ decision = "ScaleDown") =>
    /\ \E q \in 0..(app_instances * autoscale_multiplier[2]) :
         /\ q * autoscale_multiplier[1] <= app_instances * autoscale_multiplier[2]
         /\ (q + 1) * autoscale_multiplier[1] > app_instances * autoscale_multiplier[2]
         /\ target_instances = IF q < min_instances THEN min_instances ELSE q
    /\ put = IF target_instances # app_instances THEN target_instances ELSE Unassigned
    /\ ( /\ min_instances = 2 /\ app_instances = 3
         /\ autoscale_multiplier = <<2, 1>> ) => put = 2

\* C8 witness: the scenario min_instances=2, current 3, multiplier 2
C8_Witness ==
  /\ Evaluated /\ decision = "ScaleDown" /\ min_instances = 2 /\ app_instances = 3
  /\ autoscale_multiplier = <<2, 1>> /\ target_instances = 2 /\ put = 2

\* C9 (as stated): with min_instances <= max_instances every PUT carries a
\* target within [min_instances, max_instances], in either direction and for
\* every reported instance count.
C9_PutWithinLimits ==
  (put # Unassigned /\ min_instances <= max_instances) =>
    (min_instances <= put /\ put <= max_instances)

\* C10: a cycle whose metric is the sentinel -1.0 does not run the decision
\* engine, issues no scale call, leaves both counters as they were at the end
\* of the previous cycle, and is at the end-of-cycle sleep.
C10_SentinelSkips ==
  /\ (metric = Sentinel) => pc \in {"test_metric", "timer"}
  /\ (pc = "timer" /\ metric = Sentinel) =>
       /\ decision = "None"
       /\ target_instances = Unassigned /\ put = Unassigned
       /\ scale_up = scale_up0 /\ cool_down = cool_down0

\* C10 witness: a sentinel cycle asleep with a counter still at its old value
C10_Witness ==
  pc = "timer" /\ metric = Sentinel /\ scale_up0 = 2 /\ scale_up = 2

\* C11 (as stated): with a trigger_mode that is not a key of SCALING_MODES the
\* process exits with code 1 in the first cycle whatever the orchestrator
\* answers, and never reaches an end-of-cycle sleep.
C11_UnknownModeNeverSleeps ==
  (trigger_mode \notin SCALING_MODES) =>
    /\ pc # "timer"
    /\ first
    /\ pc = "exit" => exit_code = 1

\* the listing of this iteration does not contain the target application
AppAbsent == marathon_apps # {} /\ marathon_app \notin marathon_apps

\* C12: when the listing is non-empty but lacks the target application the
\* iteration is not fatal and skips the rest: no descriptor fetch, no metric
\* fetch, no decision, no PUT, both counters unchanged; it goes straight to
\* the sleep, sleeps once and starts the next iteration at the listing call.
C12_AbsentSkips ==
  /\ [](AppAbsent =>
          /\ pc \in {"check_existence", "timer"}
          /\ exit_code = 0
          /\ reported = Unassigned /\ app_task_dict = {}
          /\ min = Unassigned /\ max = Unassigned /\ metric = Unassigned
          /\ decision = "None" /\ target_instances = Unassigned /\ put = Unassigned
          /\ scale_up = scale_up0 /\ cool_down = cool_down0
          /\ sleeps = 0)
  /\ [][(AppAbsent /\ pc = "check_existence") => pc' = "timer"]_vars
  /\ [][(AppAbsent /\ pc = "timer") =>
          /\ pc' = "get_all_apps" /\ sleeps' = 1
          /\ scale_up' = scale_up /\ cool_down' = cool_down]_vars

\* C12 witness: the app is absent, the iteration is at its sleep and a
\* counter still holds the value the previous iteration left
C12_Witness ==
  AppAbsent /\ pc = "timer" /\ cool_down0 = 2 /\ cool_down = 2 /\ ~first

\* the process has exited inside get_all_apps, on an empty listing
EmptyListingExit == pc = "exit" /\ marathon_apps = {}

\* the iteration is past its listing call
PastListing ==
  pc \in {"check_existence", "get_app_details", "verify_tasks", "scalemode",
          "get_metric", "test_metric", "autoscale", "timer"}

\* C13 (as stated): an empty listing is fatal only on the initial listing call
\* of the process; in later iterations it is skipped like an absent app.
C13_EmptyListingFatalOnlyFirst == EmptyListingExit => first

\* C13 (amended): a listing call that returns no apps at all is fatal (exit
\* code 1) in whichever iteration it occurs, the first or a later one; only
\* the absence of the target application from a non-empty listing is skipped
\* without exiting.
C13_EmptyListingAlwaysFatal ==
  /\ PastListing => marathon_apps # {}
  /\ EmptyListingExit => exit_code = 1
  /\ (PastListing /\ marathon_app \notin marathon_apps) => exit_code = 0

\* C13 witness: the process has exited on an empty listing after at least one
\* completed iteration
C13_Witness == EmptyListingExit /\ ~first /\ exit_code = 1 /\ sleeps = 0

\* C14: the loop has no terminal state other than the process exit: every
\* iteration that does not exit reaches its end-of-cycle sleep, sleeps exactly
\* once and is followed by a new listing call, on every path; the next
\* iteration is never entered except through timer().
C14_LoopNeverStops ==
  /\ [](/\ sleeps \in {0, 1}
        /\ PastListing => sleeps = 0
        /\ (pc = "get_all_apps" /\ ~first) => sleeps = 1
        /\ (pc = "get_all_apps" /\ first) => sleeps = 0)
  /\ [][(pc' = "get_all_apps" /\ pc # "get_all_apps") => pc \in {"run", "timer"}]_vars
  /\ [][pc = "exit" => pc' = "exit"]_vars
  /\ (pc # "exit") ~> (pc = "timer" \/ pc = "exit")
  /\ (pc = "timer") ~> (pc = "get_all_apps" /\ sleeps = 1 /\ ~first)
  /\ (pc = "get_all_apps") ~> (pc = "check_existence" \/ pc = "exit")

\* C14 witness: a later iteration that scaled down is at its single sleep
C14_Witness ==
  pc = "timer" /\ decision = "ScaleDown" /\ put # Unassigned /\ sleeps = 0 /\ ~first

\* C15: whenever the decision engine runs, and so whenever a scale target is
\* computed, self.app_instances is the instance count returned by the
\* descriptor fetch of the same iteration, never one kept from an earlier
\* iteration.
C15_FreshInstanceCount ==
  /\ pc \in {"scalemode", "get_metric", "test_metric", "autoscale"} =>
       (reported # Unassigned /\ app_instances = reported)
  /\ (pc = "timer" /\ target_instances # Unassigned) =>
       /\ reported # Unassigned /\ app_instances = reported
       /\ decision \in {"ScaleUp", "ScaleDown"}
       /\ put \in {Unassigned, target_instances}
       /\ put = Unassigned <=> target_instances = reported

\* C15 witness: a later iteration has scaled up from the count it fetched
C15_Witness ==
  /\ pc = "timer" /\ decision = "ScaleUp" /\ ~first
  /\ reported = 3 /\ app_instances = 3 /\ put > 3

\* C16: with both factors >= 1, a ScaleUp decided after an earlier action is
\* preceded, since that action, by at least scale_up_factor evaluated
\* iterations that decided NoAction above max, a ScaleDown by at least
\* cool_down_factor that decided NoAction below min; so no action is decided
\* in the evaluated iteration that follows an action.
C16_MinimumSeparation ==
  [][(pc = "autoscale" /\ scale_up_factor >= 1 /\ cool_down_factor >= 1) =>
       /\ (decision' = "ScaleUp" /\ actions >= 1) => waitedUp >= scale_up_factor
       /\ (decision' = "ScaleDown" /\ actions >= 1) => waitedDown >= cool_down_factor
       /\ decision' \in {"ScaleUp", "ScaleDown"} => prev \notin {"ScaleUp", "ScaleDown"}
    ]_vars

\* C16 witness: a second action has fired, a ScaleDown after its full wait
C16_Witness ==
  /\ pc = "timer" /\ decision = "ScaleDown" /\ actions = 2
  /\ scale_up_factor >= 1 /\ cool_down_factor = 3 /\ cool_down0 = 3

\* C17 (as stated): with a multiplier >= 1 and whatever instance count the
\* orchestrator reports, a PUT issued on ScaleUp carries a target above the
\* current count and a PUT issued on ScaleDown a target below it.
C17_NeverAgainstDirection ==
  (pc = "timer" /\ put # Unassigned /\ autoscale_multiplier[1] >= autoscale_multiplier[2]) =>
    /\ decision = "ScaleUp" => put > app_instances
    /\ decision = "ScaleDown" => put < app_instances

\* C18: under sustained load (metric above max in every iteration, app always
\* present with task data, multiplier > 1, the orchestrator's count starting
\* in 1..max_instances and following every PUT) the instance count eventually
\* equals max_instances, and from then on it stays there and no PUT is issued.
C18_ReachesMaxAndRests ==
  /\ <>(deployed = max_instances)
  /\ [][deployed = max_instances =>
          (deployed' = max_instances /\ put' \in {put, Unassigned})]_vars
  /\ [](deployed = max_instances => (put = Unassigned \/ put = max_instances))

\* C18 witness: the count has grown to max_instances = 10 and a further
\* ScaleUp decision there has issued no PUT
C18_Witness ==
  /\ pc = "timer" /\ decision = "ScaleUp" /\ max_instances = 10 /\ deployed = 10
  /\ app_instances = 10 /\ target_instances = 10 /\ put = Unassigned

\* C19: in every state 0 <= scale_up <= scale_up_factor and
\* 0 <= cool_down <= cool_down_factor; a counter grows only in the decision
\* step, only from below its factor and by exactly 1, and never both counters
\* grow in one iteration.
C19_CounterBounds ==
  /\ [](/\ 0 <= scale_up /\ scale_up <= scale_up_factor
        /\ 0 <= cool_down /\ cool_down <= cool_down_factor
        /\ ~(scale_up > scale_up0 /\ cool_down > cool_down0))
  /\ [][scale_up' > scale_up =>
          /\ pc = "autoscale" /\ scale_up < scale_up_factor
          /\ scale_up' = scale_up + 1 /\ cool_down' <= cool_down]_vars
  /\ [][cool_down' > cool_down =>
          /\ pc = "autoscale" /\ cool_down < cool_down_factor
          /\ cool_down' = cool_down + 1 /\ scale_up' <= scale_up]_vars

\* C19 witness: scale_up has just been incremented up to its factor
C19_Witness ==
  /\ pc = "timer" /\ scale_up_factor = 3 /\ scale_up0 = 2 /\ scale_up = 3
  /\ cool_down = 0 /\ decision = "NoAction"

====
